---------------------------- MODULE Spec2Model ----------------------------
(***************************************************************************)
(* A model of the media-utils MCP server (media-utils-mcp.js).             *)
(*                                                                         *)
(* Strings of the program (paths, extensions, frame-rate strings) are      *)
(* sequences of one-character strings, so that prefix tests, splitting and *)
(* parsing are computed the way the JavaScript computes them.              *)
(***************************************************************************)
EXTENDS Integers, Sequences, FiniteSets, TLC

VARIABLES
  permittedDirectories, \* const permittedDirectories = values.permitted || []
  fs,                   \* the filesystem: resolved path -> entry
  calls,                \* the tool invocations in flight: request id -> frame
  resource,             \* what the last getAllowedDirectories read returned
  submitted,            \* the number of items the requests so far have held
  guard,                \* a single checkPath call and its outcome
  cls,                  \* a single detectMediaType call, step by step
  vinfo                 \* a single getVideoInfo probe callback and its result

vars == <<permittedDirectories, fs, calls, resource, submitted, guard, cls, vinfo>>

-----------------------------------------------------------------------------
(* Strings.                                                                *)

\* s1 ++ s2 ++ ... for a sequence of strings
RECURSIVE Cat(_)
Cat(ss) == IF ss = <<>> THEN <<>> ELSE Head(ss) \o Cat(Tail(ss))

\* String.prototype.startsWith
startsWith(s, prefix) ==
  /\ Len(prefix) <= Len(s)
  /\ SubSeq(s, 1, Len(prefix)) = prefix

\* String.prototype.endsWith
endsWith(s, suffix) ==
  /\ Len(suffix) <= Len(s)
  /\ SubSeq(s, Len(s) - Len(suffix) + 1, Len(s)) = suffix

\* String.prototype.split(sep) for a one-character separator: the pieces
\* between the separators, empty pieces kept ("a//b" gives "a", "", "b").
RECURSIVE splitFrom(_, _, _, _)
splitFrom(s, sep, k, piece) ==
  IF k > Len(s) THEN <<piece>>
  ELSE IF s[k] = sep THEN <<piece>> \o splitFrom(s, sep, k + 1, <<>>)
  ELSE splitFrom(s, sep, k + 1, Append(piece, s[k]))

split(s, sep) == splitFrom(s, sep, 1, <<>>)

\* Array.prototype.join(sep)
RECURSIVE joinWith(_, _)
joinWith(parts, sep) ==
  IF parts = <<>> THEN <<>>
  ELSE IF Len(parts) = 1 THEN parts[1]
  ELSE parts[1] \o sep \o joinWith(Tail(parts), sep)

\* String.prototype.toLowerCase on the letters the model's strings use
lowerChar(c) ==
  CASE c = "P" -> "p" [] c = "N" -> "n" [] c = "G" -> "g"
    [] c = "M" -> "m" [] c = "V" -> "v" [] OTHER -> c

toLowerCase(s) == [k \in 1..Len(s) |-> lowerChar(s[k])]

-----------------------------------------------------------------------------
(* node:path (POSIX).                                                      *)

\* process.cwd()
Cwd == <<"/", "r">>

isAbsolute(p) == Len(p) > 0 /\ p[1] = "/"

\* normalizeString: drops empty and "." segments and resolves ".."
RECURSIVE normalizeSegments(_, _, _)
normalizeSegments(segs, res, allowAboveRoot) ==
  IF segs = <<>> THEN res
  ELSE LET s == Head(segs) IN
    IF s = <<>> \/ s = <<".">>
    THEN normalizeSegments(Tail(segs), res, allowAboveRoot)
    ELSE IF s = <<".", ".">>
    THEN IF Len(res) > 0 /\ res[Len(res)] # <<".", ".">>
         THEN normalizeSegments(Tail(segs), SubSeq(res, 1, Len(res) - 1),
                                allowAboveRoot)
         ELSE IF allowAboveRoot
         THEN normalizeSegments(Tail(segs), Append(res, s), allowAboveRoot)
         ELSE normalizeSegments(Tail(segs), res, allowAboveRoot)
    ELSE normalizeSegments(Tail(segs), Append(res, s), allowAboveRoot)

normalizeString(p, allowAboveRoot) ==
  joinWith(normalizeSegments(split(p, "/"), <<>>, allowAboveRoot), <<"/">>)

\* path.normalize
normalize(p) ==
  IF Len(p) = 0 THEN <<".">>
  ELSE LET abs      == isAbsolute(p)
           trailing == p[Len(p)] = "/"
           n        == normalizeString(p, ~abs)
       IN  IF Len(n) = 0
           THEN IF abs THEN <<"/">>
                ELSE IF trailing THEN <<".", "/">> ELSE <<".">>
           ELSE (IF abs THEN <<"/">> ELSE <<>>) \o n
                \o (IF trailing THEN <<"/">> ELSE <<>>)

\* path.resolve of one argument: made absolute against the working
\* directory, normalized, no trailing separator
resolve(p) ==
  LET full == IF isAbsolute(p) THEN p
              ELSE IF Len(p) = 0 THEN Cwd ELSE Cwd \o <<"/">> \o p
  IN  <<"/">> \o normalizeString(full, FALSE)

\* the path without its trailing separators
RECURSIVE stripTrailingSlashes(_)
stripTrailingSlashes(p) ==
  IF Len(p) > 0 /\ p[Len(p)] = "/"
  THEN stripTrailingSlashes(SubSeq(p, 1, Len(p) - 1))
  ELSE p

\* the index of the last occurrence of c in s, 0 when there is none
RECURSIVE lastIndexFrom(_, _, _)
lastIndexFrom(s, c, k) ==
  IF k = 0 \/ s[k] = c THEN k ELSE lastIndexFrom(s, c, k - 1)

lastIndexOf(s, c) == lastIndexFrom(s, c, Len(s))

\* the last component of a path, trailing separators ignored
lastComponent(p) ==
  LET q == stripTrailingSlashes(p)
  IN  SubSeq(q, lastIndexOf(q, "/") + 1, Len(q))

\* path.dirname
dirname(p) ==
  IF Len(p) = 0 THEN <<".">>
  ELSE LET q == stripTrailingSlashes(p)
           k == lastIndexOf(q, "/")
       IN  IF Len(q) = 0 THEN <<"/">>               \* only separators
           ELSE IF k = 0 THEN <<".">>
           ELSE LET d == stripTrailingSlashes(SubSeq(q, 1, k - 1))
                IN  IF Len(d) = 0
                    THEN (IF k = 2 THEN <<"/", "/">> ELSE <<"/">>)
                    ELSE d

\* path.extname: from the last "." of the last component to its end; empty
\* when there is no ".", when the only "." starts the component, or for ".."
extname(p) ==
  LET comp == lastComponent(p)
      d    == lastIndexOf(comp, ".")
  IN  IF d <= 1 \/ comp = <<".", ".">> THEN <<>>
      ELSE SubSeq(comp, d, Len(comp))

\* path.basename(p, ext)
basename(p, ext) ==
  LET comp == lastComponent(p)
  IN  IF Len(ext) > 0 /\ Len(ext) <= Len(p)
      THEN IF ext = p THEN <<>>
           ELSE IF endsWith(comp, ext) /\ comp # ext
           THEN SubSeq(comp, 1, Len(comp) - Len(ext))
           ELSE comp
      ELSE comp

\* path.join(a, b)
join(a, b) ==
  LET joined == IF Len(a) = 0 THEN b
                ELSE IF Len(b) = 0 THEN a
                ELSE a \o <<"/">> \o b
  IN  IF Len(joined) = 0 THEN <<".">> ELSE normalize(joined)

-----------------------------------------------------------------------------
(* Values of the program.                                                  *)

\* null / undefined, and a present value
Null == <<>>
Some(v) == <<v>>

\* const IMAGE = "IMAGE"; const VIDEO = "VIDEO"
IMAGE == "IMAGE"
VIDEO == "VIDEO"

\* const imageExtensions = [...]; const videoExtensions = [...]
imageExtensions ==
  { <<".", "j", "p", "g">>, <<".", "j", "p", "e", "g">>, <<".", "p", "n", "g">>,
    <<".", "g", "i", "f">>, <<".", "w", "e", "b", "p">>, <<".", "t", "i", "f", "f">>,
    <<".", "b", "m", "p">>, <<".", "s", "v", "g">> }

videoExtensions ==
  { <<".", "m", "p", "4">>, <<".", "m", "o", "v">>, <<".", "a", "v", "i">>,
    <<".", "m", "k", "v">>, <<".", "w", "e", "b", "m">>, <<".", "w", "m", "v">>,
    <<".", "f", "l", "v">>, <<".", "m", "4", "v">>, <<".", "3", "g", "p">> }

-----------------------------------------------------------------------------
(* What the external libraries answer for a file, by its content.          *)
(* sharp(path).metadata() resolves with the image's metadata or rejects;   *)
(* ffmpeg.ffprobe(path, cb) calls back with an error or with the           *)
(* container's metadata (streams and format).  ffprobe prints a stream's   *)
(* codec_type in lower case: "video", "audio", "subtitle", "data".         *)

SharpError == <<"Input file contains unsupported image format">>
SharpMissing == <<"Input file is missing">>
ProbeError == <<"ffprobe exited with code 1">>

\* frame-rate strings as ffprobe prints them
FR_30000_1001 == <<"3", "0", "0", "0", "0", "/", "1", "0", "0", "1">>
FR_0_0 == <<"0", "/", "0">>

VideoStream == [codec_type |-> "video", avg_frame_rate |-> Some(FR_30000_1001)]
AudioStream == [codec_type |-> "audio", avg_frame_rate |-> Some(FR_0_0)]

PngMetadata == [format |-> "png", width |-> 4, height |-> 2, hasAlpha |-> TRUE]
Mp4Metadata == [streams |-> <<VideoStream, AudioStream>>, format |-> "mov,mp4,m4a"]
M4aMetadata == [streams |-> <<AudioStream>>, format |-> "mov,mp4,m4a"]

\* file contents: what sharp and ffprobe make of the bytes
PngContent == [sharp |-> [ok |-> TRUE, metadata |-> PngMetadata],
               ffprobe |-> [ok |-> FALSE, message |-> ProbeError]]
Mp4Content == [sharp |-> [ok |-> FALSE, message |-> SharpError],
               ffprobe |-> [ok |-> TRUE, metadata |-> Mp4Metadata]]
M4aContent == [sharp |-> [ok |-> FALSE, message |-> SharpError],
               ffprobe |-> [ok |-> TRUE, metadata |-> M4aMetadata]]
GarbageContent == [sharp |-> [ok |-> FALSE, message |-> SharpError],
                   ffprobe |-> [ok |-> FALSE, message |-> ProbeError]]

Dir == [kind |-> "dir", content |-> GarbageContent]
File(content) == [kind |-> "file", content |-> content]

-----------------------------------------------------------------------------
(* Paths of the model: "/r/a" is the permitted root of most runs, "/r/ab"  *)
(* its sibling whose name starts with the root's name, "/x" lies elsewhere.*)

P_root == <<"/">>
P_r == <<"/", "r">>
P_ra == <<"/", "r", "/", "a">>
P_ra_slash == <<"/", "r", "/", "a", "/">>
P_a_rel == <<"a">>
P_rab == <<"/", "r", "/", "a", "b">>
P_m == <<"/", "m">>
P_x == <<"/", "x">>
N_v_mp4 == <<"v", ".", "m", "p", "4">>
N_i_mp4 == <<"i", ".", "m", "p", "4">>
N_i_png == <<"i", ".", "p", "n", "g">>
N_s_MP4 == <<"s", ".", "M", "P", "4">>
N_g_png == <<"g", ".", "p", "n", "g">>
N_none == <<"n", "o">>
N_t_png == <<"t", ".", "p", "n", "g">>
N_t_jpg == <<"t", ".", "j", "p", "g">>
Under(dir, name) == dir \o <<"/">> \o name

\* the filesystem at process start
FS0 ==
  (P_root :> Dir) @@ (P_r :> Dir) @@ (P_ra :> Dir) @@ (P_rab :> Dir)
  @@ (P_x :> Dir)
  @@ (Under(P_ra, N_v_mp4) :> File(Mp4Content))
  @@ (Under(P_ra, N_i_mp4) :> File(PngContent))
  @@ (Under(P_ra, N_i_png) :> File(PngContent))
  @@ (Under(P_ra, N_g_png) :> File(GarbageContent))
  @@ (Under(P_rab, N_v_mp4) :> File(Mp4Content))
  @@ (Under(P_x, N_v_mp4) :> File(Mp4Content))

\* a filesystem holding the root directory alone
FSBare == (P_root :> Dir)

\* the --permitted values a run may be started with
RootConfigs ==
  { <<>>, <<P_ra>>, <<P_ra_slash, P_m>>, <<P_a_rel>> }

-----------------------------------------------------------------------------
(* fs module.                                                              *)

\* fs.existsSync
existsSync(p, fsys) == resolve(p) \in DOMAIN fsys

-----------------------------------------------------------------------------
(* PathGuard.                                                              *)

\* function isSafePath(pathToCheck): the loop over permittedDirectories
\* returns true at the first base path the normalized path starts with
isSafePath(pathToCheck) ==
  LET normalizedPath == normalize(resolve(pathToCheck))
  IN  \E k \in 1..Len(permittedDirectories) :
        LET normalizedBasePath == normalize(resolve(permittedDirectories[k]))
        IN  startsWith(normalizedPath, normalizedBasePath)

ErrNotExist(filePath) == <<"Path does not exist: ">> \o filePath
ErrNotAllowed == <<"Path not allowed: Not in permitted directories">>

\* function checkPath(filePath): returns true or throws
checkPath(filePath, fsys) ==
  IF ~existsSync(filePath, fsys)
  THEN [ok |-> FALSE, error |-> ErrNotExist(filePath)]
  ELSE IF ~isSafePath(filePath)
  THEN [ok |-> FALSE, error |-> ErrNotAllowed]
  ELSE [ok |-> TRUE, error |-> <<>>]

-----------------------------------------------------------------------------
(* A single checkPath call.                                                *)

\* the candidate paths handed to checkPath
PathInputs ==
  { P_ra, P_ra_slash, P_rab, P_r, P_root, P_x, P_m,
    Under(P_ra, N_v_mp4), Under(P_rab, N_v_mp4), Under(P_x, N_v_mp4),
    Under(P_ra, N_none), Under(P_rab, N_none),
    P_ra \o <<"/", ".", ".", "/", "a", "b", "/">> \o N_v_mp4,
    P_ra \o <<"/", ".", "/">> \o N_v_mp4,
    <<"a", "/">> \o N_v_mp4,
    <<"a", "b", "/">> \o N_v_mp4 }

GuardIdle == [path |-> <<>>, done |-> FALSE, ok |-> FALSE, error |-> <<>>]

NoCalls == <<>>

InitPath ==
  /\ permittedDirectories \in RootConfigs
  /\ fs \in {FS0, FSBare}
  /\ \E p \in PathInputs : guard = [GuardIdle EXCEPT !.path = p]
  /\ calls = NoCalls
  /\ resource = Null
  /\ submitted = 0
  /\ cls = Null
  /\ vinfo = Null

\* checkPath(guard.path) is called and returns or throws
CheckPathCall ==
  /\ ~guard.done
  /\ LET r == checkPath(guard.path, fs)
     IN  guard' = [guard EXCEPT !.done = TRUE, !.ok = r.ok, !.error = r.error]
  /\ UNCHANGED <<permittedDirectories, fs, calls, resource, submitted, cls, vinfo>>

NextPath == CheckPathCall

SpecPath == InitPath /\ [][NextPath]_vars

-----------------------------------------------------------------------------
(* Directory trees, for stating containment.                               *)

\* the segments of an absolute normalized path
segmentsOf(p) == normalizeSegments(split(p, "/"), <<>>, FALSE)

\* p lies in the directory tree rooted at root (root itself included)
InsideTree(p, root) ==
  LET ps == segmentsOf(resolve(p))
      rs == segmentsOf(resolve(root))
  IN  Len(rs) <= Len(ps) /\ SubSeq(ps, 1, Len(rs)) = rs

InsideSomeRoot(p) ==
  \E k \in 1..Len(permittedDirectories) : InsideTree(p, permittedDirectories[k])

\* C1: every path outside the tree of every permitted root makes checkPath
\* fail with 'Path not allowed', whether or not the path exists.
C1_OutsideIsNotPermitted ==
  (guard.done /\ ~InsideSomeRoot(guard.path))
    => (~guard.ok /\ guard.error = ErrNotAllowed)

-----------------------------------------------------------------------------
(* The external libraries, as functions of the file a path names.          *)

\* sharp(filePath).metadata(): resolves or rejects
sharpMetadata(filePath, fsys) ==
  IF ~existsSync(filePath, fsys)
  THEN [ok |-> FALSE, message |-> SharpMissing]
  ELSE fsys[resolve(filePath)].content.sharp

\* ffmpeg.ffprobe(filePath, callback): the (err, metadata) it calls back with
ffprobe(filePath, fsys) ==
  IF ~existsSync(filePath, fsys)
  THEN [ok |-> FALSE, message |-> ProbeError]
  ELSE fsys[resolve(filePath)].content.ffprobe

-----------------------------------------------------------------------------
(* MediaClassifier: async function detectMediaType(filePath), cut at its   *)
(* two awaits.                                                             *)

\* let mediaType = {...}, then the extension hint
seedMediaType(extension) ==
  LET mediaType == [type |-> "UNKNOWN", isVideo |-> FALSE, isImage |-> FALSE,
                    message |-> Null, metadata |-> Null]
  IN  IF extension \in imageExtensions
      THEN [mediaType EXCEPT !.type = IMAGE, !.isImage = TRUE]
      ELSE IF extension \in videoExtensions
      THEN [mediaType EXCEPT !.type = VIDEO, !.isVideo = TRUE]
      ELSE mediaType

\* sharp resolved: the function returns this
onSharpResolved(mediaType, imageMetadata) ==
  [mediaType EXCEPT !.type = IMAGE, !.isImage = TRUE,
                    !.metadata = Some(imageMetadata)]

\* metadata.streams && metadata.streams.some(stream => stream.codec_type === VIDEO)
hasVideoStreamOf(metadata) ==
  \E k \in 1..Len(metadata.streams) : metadata.streams[k].codec_type = VIDEO

\* the value the ffprobe callback resolves the promise with
videoCheckOf(probe) ==
  IF ~probe.ok
  THEN [success |-> FALSE, error |-> probe.message,
        metadata |-> Null, hasVideoStream |-> FALSE]
  ELSE [success |-> TRUE, error |-> <<>>,
        metadata |-> Some(probe.metadata),
        hasVideoStream |-> hasVideoStreamOf(probe.metadata)]

\* onProbeDone reporting the probe's error alone
onProbeDone_probeErrorOnly(mediaType, videoCheck, sharpErrMessage) ==
  IF videoCheck.success /\ videoCheck.hasVideoStream
  THEN [mediaType EXCEPT !.type = VIDEO, !.isVideo = TRUE,
                         !.metadata = videoCheck.metadata]
  ELSE IF videoCheck.success
  THEN [mediaType EXCEPT
          !.type = "OTHER_MEDIA",
          !.message = Some(<<"File is recognized by ffprobe but contains no video streams">>),
          !.metadata = videoCheck.metadata]
  ELSE [mediaType EXCEPT
          !.type = "UNKNOWN",
          !.message = Some(<<"Unrecognized media: ">> \o videoCheck.error)]

\* after the probe: the three outcomes, and what the function returns
onProbeDone(mediaType, videoCheck, sharpErrMessage) ==
  IF videoCheck.success /\ videoCheck.hasVideoStream
  THEN [mediaType EXCEPT !.type = VIDEO, !.isVideo = TRUE,
                         !.metadata = videoCheck.metadata]
  ELSE IF videoCheck.success
  THEN [mediaType EXCEPT
          !.type = "OTHER_MEDIA",
          !.message = Some(<<"File is recognized by ffprobe but contains no video streams">>),
          !.metadata = videoCheck.metadata]
  ELSE [mediaType EXCEPT
          !.type = "UNKNOWN",
          !.message = Some(<<"Unrecognized media: ">> \o videoCheck.error
                           \o <<", ">> \o sharpErrMessage)]

\* detectMediaType run to its end on a file with the given content
detectMediaType(filePath, fsys) ==
  LET seed  == seedMediaType(toLowerCase(extname(filePath)))
      image == sharpMetadata(filePath, fsys)
  IN  IF image.ok THEN onSharpResolved(seed, image.metadata)
      ELSE onProbeDone(seed, videoCheckOf(ffprobe(filePath, fsys)), image.message)

-----------------------------------------------------------------------------
(* A single detectMediaType call.                                          *)

\* a file both libraries accept
PolyglotContent == [sharp |-> PngContent.sharp, ffprobe |-> Mp4Content.ffprobe]
\* a container without streams
EmptyContent == [sharp |-> [ok |-> FALSE, message |-> SharpError],
                 ffprobe |-> [ok |-> TRUE,
                              metadata |-> [streams |-> <<>>, format |-> "data"]]]

Contents ==
  { PngContent, Mp4Content, M4aContent, GarbageContent, PolyglotContent,
    EmptyContent }

\* file names with an image extension, a video extension (in either case),
\* another extension, none, and a leading dot
ClassifyNames ==
  { N_i_png, N_v_mp4, N_s_MP4, <<"n", ".", "t", "x", "t">>, N_none,
    <<".", "p", "n", "g">> }

ClsIdle == [filePath |-> <<>>, pc |-> "start", mediaType |-> seedMediaType(<<>>),
            sharpErr |-> <<>>, error |-> <<>>, log |-> <<>>]

InitClassify ==
  /\ permittedDirectories = <<P_ra>>
  /\ \E name \in ClassifyNames, content \in Contents, dir \in {P_ra, P_x} :
       /\ fs = ((dir \o <<"/">> \o name) :> File(content)) @@ FS0
       /\ cls = Some([ClsIdle EXCEPT !.filePath = dir \o <<"/">> \o name])
  /\ calls = NoCalls
  /\ resource = Null
  /\ submitted = 0
  /\ guard = GuardIdle
  /\ vinfo = Null

\* detectMediaType is entered: checkPath, the extension hint, and the image
\* decode is started (or checkPath throws)
DetectStart ==
  /\ cls # Null /\ cls[1].pc = "start"
  /\ LET c == cls[1]
         r == checkPath(c.filePath, fs)
     IN  IF ~r.ok
         THEN cls' = Some([c EXCEPT !.pc = "threw", !.error = r.error])
         ELSE cls' = Some([c EXCEPT
                !.pc = "sharp",
                !.mediaType = seedMediaType(toLowerCase(extname(c.filePath))),
                !.log = Append(c.log, "sharp")])
  /\ UNCHANGED <<permittedDirectories, fs, calls, resource, submitted, guard, vinfo>>

\* the image decode succeeds: the function returns without probing
DetectSharpResolved ==
  /\ cls # Null /\ cls[1].pc = "sharp"
  /\ LET c == cls[1]
         image == sharpMetadata(c.filePath, fs)
     IN  /\ image.ok
         /\ cls' = Some([c EXCEPT
                !.pc = "returned",
                !.mediaType = onSharpResolved(c.mediaType, image.metadata),
                !.log = Append(c.log, "sharp resolved")])
  /\ UNCHANGED <<permittedDirectories, fs, calls, resource, submitted, guard, vinfo>>

\* the image decode fails: the container probe is started
DetectSharpRejected ==
  /\ cls # Null /\ cls[1].pc = "sharp"
  /\ LET c == cls[1]
         image == sharpMetadata(c.filePath, fs)
     IN  /\ ~image.ok
         /\ cls' = Some([c EXCEPT
                !.pc = "ffprobe",
                !.sharpErr = image.message,
                !.log = c.log \o <<"sharp rejected", "ffprobe">>])
  /\ UNCHANGED <<permittedDirectories, fs, calls, resource, submitted, guard, vinfo>>

\* the probe calls back: the function returns
DetectProbeCallback ==
  /\ cls # Null /\ cls[1].pc = "ffprobe"
  /\ LET c == cls[1]
         videoCheck == videoCheckOf(ffprobe(c.filePath, fs))
     IN  cls' = Some([c EXCEPT
                !.pc = "returned",
                !.mediaType = onProbeDone(c.mediaType, videoCheck, c.sharpErr),
                !.log = Append(c.log, "ffprobe called back")])
  /\ UNCHANGED <<permittedDirectories, fs, calls, resource, submitted, guard, vinfo>>

NextClassify ==
  \/ DetectStart
  \/ DetectSharpResolved
  \/ DetectSharpRejected
  \/ DetectProbeCallback

SpecClassify == InitClassify /\ [][NextClassify]_vars

-----------------------------------------------------------------------------
(* Properties of the classifier.                                           *)

\* sub occurs in s
Contains(s, sub) ==
  \E k \in 1..(Len(s) - Len(sub) + 1) : SubSeq(s, k, k + Len(sub) - 1) = sub

ClsReturned == cls # Null /\ cls[1].pc = "returned"

\* what the two probes make of the classified file
ClsSharp == sharpMetadata(cls[1].filePath, fs)
ClsProbe == ffprobe(cls[1].filePath, fs)

\* the classification of a file of the same content under another name
Renamed(name) ==
  LET other == Under(P_ra, name)
  IN  detectMediaType(other,
        (other :> fs[resolve(cls[1].filePath)]) @@ fs)

\* C3: the tag and the two flags are decided by the probe outcomes alone: a
\* file of the same content under any other extension is classified the
\* same, and a file that decodes as an image under a video extension is
\* Image with isVideo false.
C3_ContentDecidesClass ==
  ClsReturned =>
    LET mt == cls[1].mediaType IN
    /\ \A name \in ClassifyNames :
         /\ Renamed(name).type = mt.type
         /\ Renamed(name).isImage = mt.isImage
         /\ Renamed(name).isVideo = mt.isVideo
    /\ (ClsSharp.ok /\ toLowerCase(extname(cls[1].filePath)) \in videoExtensions)
         => (mt.type = IMAGE /\ ~mt.isVideo)

\* C4: a returned MediaType has at most one of isImage and isVideo true, and
\* with both false its tag is OTHER_MEDIA or UNKNOWN.
C4_AtMostOneFlag ==
  ClsReturned =>
    LET mt == cls[1].mediaType IN
    /\ ~(mt.isImage /\ mt.isVideo)
    /\ (~mt.isImage /\ ~mt.isVideo) => mt.type \in {"OTHER_MEDIA", "UNKNOWN"}

\* the probe result lists a stream of kind "video"
ListsVideoStream(metadata) ==
  \E k \in 1..Len(metadata.streams) : metadata.streams[k].codec_type = "video"

\* C5: image decoding failed and the probe succeeded: with a stream of kind
\* "video" the result is Video, isVideo true, metadata the full probe result;
\* with no such stream it is OTHER_MEDIA.
C5_VideoStreamIsVideo ==
  (ClsReturned /\ ~ClsSharp.ok /\ ClsProbe.ok) =>
    LET mt == cls[1].mediaType IN
    IF ListsVideoStream(ClsProbe.metadata)
    THEN mt.type = VIDEO /\ mt.isVideo /\ mt.metadata = Some(ClsProbe.metadata)
    ELSE mt.type = "OTHER_MEDIA"

\* the container probe was started only after the image decode had failed
ProbeAfterDecodeFailed(log) ==
  \A k \in 1..Len(log) :
    log[k] = "ffprobe" =>
      /\ \E j \in 1..(k - 1) : log[j] = "sharp rejected"
      /\ \A j \in 1..Len(log) : log[j] # "sharp resolved"

\* C8: image decode and container probe both failed: the result is UNKNOWN
\* with a message holding the probe's error and the decoder's error, whatever
\* the extension; and the probe is only ever started after the decode failed.
C8_BothErrorsReported ==
  cls # Null =>
    /\ ProbeAfterDecodeFailed(cls[1].log)
    /\ (ClsReturned /\ ~ClsSharp.ok /\ ~ClsProbe.ok) =>
         LET mt == cls[1].mediaType IN
         /\ mt.type = "UNKNOWN"
         /\ mt.message # Null
         /\ Contains(mt.message[1], ClsProbe.message)
         /\ Contains(mt.message[1], ClsSharp.message)

\* a garbage file named g.png has been classified UNKNOWN after both probes
C8_Witness ==
  /\ ClsReturned
  /\ ~ClsSharp.ok /\ ~ClsProbe.ok
  /\ toLowerCase(extname(cls[1].filePath)) \in imageExtensions
  /\ cls[1].mediaType.type = "UNKNOWN"
  /\ cls[1].log = <<"sharp", "sharp rejected", "ffprobe", "ffprobe called back">>

-----------------------------------------------------------------------------
(* MetadataExtractor: the ffprobe callback of getVideoInfo.                *)

Digits == {"0", "1", "2", "3", "4", "5", "6", "7", "8", "9"}

digitValue(c) ==
  CASE c = "0" -> 0 [] c = "1" -> 1 [] c = "2" -> 2 [] c = "3" -> 3
    [] c = "4" -> 4 [] c = "5" -> 5 [] c = "6" -> 6 [] c = "7" -> 7
    [] c = "8" -> 8 [] c = "9" -> 9

\* the value of a string of decimal digits
RECURSIVE decimalValue(_)
decimalValue(ds) ==
  IF ds = <<>> THEN 0
  ELSE 10 * decimalValue(SubSeq(ds, 1, Len(ds) - 1)) + digitValue(ds[Len(ds)])

\* the longest prefix of s made of decimal digits
RECURSIVE digitPrefix(_)
digitPrefix(s) ==
  IF s = <<>> \/ Head(s) \notin Digits THEN <<>>
  ELSE <<Head(s)>> \o digitPrefix(Tail(s))

\* parseInt(s) for strings without sign, blank or "0x" prefix: the value of
\* the leading digits, NaN when the string does not start with a digit
parseInt(s) ==
  LET ds == digitPrefix(s)
  IN  IF ds = <<>> THEN [nan |-> TRUE, value |-> 0]
      ELSE [nan |-> FALSE, value |-> decimalValue(ds)]

\* a JavaScript number, kept in hundredths, or NaN, or null
NullNumber == [kind |-> "null", hundredths |-> 0]
NaN == [kind |-> "NaN", hundredths |-> 0]
Hundredths(h) == [kind |-> "number", hundredths |-> h]

\* parseFloat((n / d).toFixed(2)) for n >= 0, d > 0: n/d to the nearest
\* hundredth, a tie going up (exact whenever d is no multiple of 40, which
\* holds for every denominator the model's frame-rate strings can spell)
toFixed2(n, d) == Hundredths((200 * n + d) \div (2 * d))

\* lines 344-355: let framerate = null; ... the first video stream's
\* avg_frame_rate, split on "/"
framerateOf(videoStreams) ==
  IF Len(videoStreams) > 0
  THEN LET videoStream == videoStreams[1] IN
       IF videoStream.avg_frame_rate # Null /\ videoStream.avg_frame_rate[1] # <<>>
       THEN LET framerateParts == split(videoStream.avg_frame_rate[1], "/")
            IN  IF Len(framerateParts) = 2
                   /\ (parseInt(framerateParts[2]).nan
                       \/ parseInt(framerateParts[2]).value # 0)
                THEN LET n == parseInt(framerateParts[1])
                         d == parseInt(framerateParts[2])
                     IN  IF n.nan \/ d.nan THEN NaN
                         ELSE toFixed2(n.value, d.value)
                ELSE NullNumber
       ELSE NullNumber
  ELSE NullNumber

isKindVIDEO(stream) == stream.codec_type = VIDEO
isKindAudio(stream) == stream.codec_type = "audio"
isKindVideoLower(stream) == stream.codec_type = "video"

\* getVideoInfo's ffprobe callback on success: what the promise resolves with
\* (the format-level fields duration, size and bit_rate are left out)
getVideoInfo(metadata, videoPath) ==
  LET videoStreams == SelectSeq(metadata.streams, isKindVIDEO)
      audioStreams == SelectSeq(metadata.streams, isKindAudio)
  IN  [format |-> metadata.format,
       video_streams |-> videoStreams,
       audio_streams |-> audioStreams,
       framerate |-> framerateOf(videoStreams),
       path |-> videoPath]

\* the same callback in src/media-utils-mcp.js, which filters on 'video'
getVideoInfo_src(metadata, videoPath) ==
  LET videoStreams == SelectSeq(metadata.streams, isKindVideoLower)
      audioStreams == SelectSeq(metadata.streams, isKindAudio)
  IN  [format |-> metadata.format,
       video_streams |-> videoStreams,
       audio_streams |-> audioStreams,
       framerate |-> framerateOf(videoStreams),
       path |-> videoPath]

-----------------------------------------------------------------------------
(* A single getVideoInfo probe callback.                                   *)

\* the longest frame-rate string drawn from the alphabet
MaxRateLen == 3

RateAlphabet == {"0", "1", "3", "/", "a"}

RECURSIVE StringsUpTo(_)
StringsUpTo(n) ==
  IF n = 0 THEN {<<>>}
  ELSE LET shorter == StringsUpTo(n - 1)
       IN  shorter \cup {Append(s, c) : s \in shorter, c \in RateAlphabet}

\* the avg_frame_rate values: every string over the alphabet up to the
\* bound, the strings ffprobe prints, and an absent field
FrameRates ==
  {Some(s) : s \in StringsUpTo(MaxRateLen)
               \cup {FR_30000_1001, FR_0_0, <<"3", "0">>, <<"3", "0", "/", "1">>}}
  \cup {Null}

StreamOf(kind, rate) == [codec_type |-> kind, avg_frame_rate |-> rate]

\* the stream lists a successful probe calls back with
StreamLists ==
  {<<>>, <<AudioStream>>}
  \cup {<<StreamOf("video", r)>> : r \in FrameRates}
  \cup {<<AudioStream, StreamOf("video", r), StreamOf("video", Some(FR_0_0))>> :
          r \in FrameRates}

InitInfo ==
  /\ permittedDirectories = <<P_ra>>
  /\ fs = FS0
  /\ \E streams \in StreamLists :
       vinfo = Some([metadata |-> [streams |-> streams, format |-> "mov,mp4,m4a"],
                     videoPath |-> Under(P_ra, N_v_mp4),
                     done |-> FALSE, src |-> FALSE,
                     framerate |-> NullNumber])
  /\ calls = NoCalls
  /\ resource = Null
  /\ submitted = 0
  /\ guard = GuardIdle
  /\ cls = Null

\* ffprobe calls back without error and the promise resolves
ProbeCallback ==
  /\ vinfo # Null /\ ~vinfo[1].done
  /\ LET info == getVideoInfo(vinfo[1].metadata, vinfo[1].videoPath)
     IN  vinfo' = Some([vinfo[1] EXCEPT !.done = TRUE,
                                        !.framerate = info.framerate])
  /\ UNCHANGED <<permittedDirectories, fs, calls, resource, submitted, guard, cls>>

\* the same under src/media-utils-mcp.js
ProbeCallback_src ==
  /\ vinfo # Null /\ ~vinfo[1].done
  /\ LET info == getVideoInfo_src(vinfo[1].metadata, vinfo[1].videoPath)
     IN  vinfo' = Some([vinfo[1] EXCEPT !.done = TRUE, !.src = TRUE,
                                        !.framerate = info.framerate])
  /\ UNCHANGED <<permittedDirectories, fs, calls, resource, submitted, guard, cls>>

NextInfo ==
  \/ ProbeCallback
  \/ ProbeCallback_src

SpecInfo == InitInfo /\ [][NextInfo]_vars

\* s is a non-empty string of decimal digits
IsNumeral(s) == Len(s) > 0 /\ \A k \in 1..Len(s) : s[k] \in Digits

\* the framerate the frame-rate rule asks for
ExpectedFramerate(metadata) ==
  LET videos == SelectSeq(metadata.streams, isKindVideoLower) IN
  IF videos = <<>> \/ videos[1].avg_frame_rate = Null THEN NullNumber
  ELSE LET parts == split(videos[1].avg_frame_rate[1], "/") IN
       IF /\ Len(parts) = 2
          /\ IsNumeral(parts[1]) /\ IsNumeral(parts[2])
          /\ decimalValue(parts[2]) # 0
       THEN toFixed2(decimalValue(parts[1]), decimalValue(parts[2]))
       ELSE NullNumber

\* C9: after a successful probe the framerate is N/D to two decimals when
\* the first stream of kind "video" has a frame rate "N/D" of two numerals
\* with D # 0, and null in every other case.
C9_Framerate ==
  (vinfo # Null /\ vinfo[1].done /\ ~vinfo[1].src)
    => vinfo[1].framerate = ExpectedFramerate(vinfo[1].metadata)

\* the same statement of the callback in src/media-utils-mcp.js
C9_Framerate_src ==
  (vinfo # Null /\ vinfo[1].done /\ vinfo[1].src)
    => vinfo[1].framerate = ExpectedFramerate(vinfo[1].metadata)

-----------------------------------------------------------------------------
(* The server: tool invocations, each an async handler cut at its awaits.  *)
(* Between two awaits a handler runs without interruption; while it awaits *)
(* an external call, other requests and callbacks run.                     *)

\* the number of items the requests of one run hold together
MaxItems == 2

\* the requests that may be in flight together
Requests == {1, 2}

Idle == [pc |-> "idle"]

\* String(e) of an Error with the given message
StringOfError(message) == <<"Error: ">> \o message

\* fs.mkdirSync(dir, { recursive: true }): the directory and its missing
\* ancestors; ENOTDIR when a file stands on the way
RECURSIVE chainOf(_)
chainOf(segs) ==
  IF segs = <<>> THEN {<<"/">>}
  ELSE {<<"/">> \o joinWith(segs, <<"/">>)}
       \cup chainOf(SubSeq(segs, 1, Len(segs) - 1))

mkdirSync(dir, fsys) ==
  LET chain == chainOf(segmentsOf(resolve(dir)))
  IN  IF \E q \in chain : q \in DOMAIN fsys /\ fsys[q].kind = "file"
      THEN [ok |-> FALSE, error |-> <<"ENOTDIR: not a directory, mkdir ">> \o dir,
            fs |-> fsys]
      ELSE [ok |-> TRUE, error |-> <<>>,
            fs |-> [q \in chain \ DOMAIN fsys |-> Dir] @@ fsys]

\* a catch block that swallows the error without a record
mediaInfoFailure_swallowed(f, message) == [f EXCEPT !.i = @ + 1]

\* the catch block of getMediaInfo: results.push({path, error, ...})
mediaInfoFailure(f, message) ==
  [f EXCEPT
     !.results = Append(@, [path |-> f.mediaPaths[f.i],
                            error |-> StringOfError(message),
                            success |-> FALSE,
                            mediaType |-> "UNKNOWN"]),
     !.i = @ + 1]

\* getMediaInfo's for loop from item f.i on: up to the first await (the
\* image decode of detectMediaType) or to the return
RECURSIVE getMediaInfo_loop(_, _)
getMediaInfo_loop(f, fsys) ==
  IF f.i > Len(f.mediaPaths)
  THEN [f EXCEPT !.pc = "returned"]
  ELSE LET filePath == f.mediaPaths[f.i]
           r == checkPath(filePath, fsys)
       IN  IF ~r.ok
           THEN getMediaInfo_loop(mediaInfoFailure(f, r.error), fsys)
           ELSE [f EXCEPT
                   !.pc = "detect sharp",
                   !.mediaType = seedMediaType(toLowerCase(extname(filePath)))]

\* getMediaInfo after detectMediaType returned: getImageInfo or getVideoInfo
\* is entered (checkPath, then its external call), or the item fails
getMediaInfo_classified(f, mediaType, fsys) ==
  LET filePath == f.mediaPaths[f.i]
      r == checkPath(filePath, fsys)
  IN  IF mediaType.isImage
      THEN IF ~r.ok THEN getMediaInfo_loop(mediaInfoFailure(f, r.error), fsys)
           ELSE [f EXCEPT !.pc = "info sharp", !.mediaType = mediaType]
      ELSE IF mediaType.isVideo
      THEN IF ~r.ok THEN getMediaInfo_loop(mediaInfoFailure(f, r.error), fsys)
           ELSE [f EXCEPT !.pc = "info ffprobe", !.mediaType = mediaType]
      ELSE getMediaInfo_loop(
             mediaInfoFailure(f, <<"File is not a supported media type: ">>
                                 \o (IF mediaType.message = Null THEN <<"null">>
                                     ELSE mediaType.message[1])),
             fsys)

\* getImageInfo's record, with info.mediaType and info.success set
imageInfo(metadata, imagePath) ==
  [format |-> metadata.format,
   mode |-> IF metadata.hasAlpha THEN "RGBA" ELSE "RGB",
   width |-> metadata.width,
   height |-> metadata.height,
   filename |-> basename(imagePath, <<>>),
   path |-> imagePath,
   mediaType |-> IMAGE,
   success |-> TRUE]

\* getVideoInfo's record, with info.mediaType and info.success set
videoInfo(metadata, videoPath) ==
  LET info == getVideoInfo(metadata, videoPath)
  IN  [format |-> info.format,
       video_streams |-> info.video_streams,
       audio_streams |-> info.audio_streams,
       framerate |-> info.framerate,
       path |-> info.path,
       mediaType |-> VIDEO,
       success |-> TRUE]

\* the catch block of generateImagesFromVideos
generateFailure(f, message) ==
  [f EXCEPT
     !.results = Append(@, [videoPath |-> f.items[f.i].videoPath,
                            imagePath |-> f.items[f.i].imagePath,
                            error |-> StringOfError(message),
                            success |-> FALSE]),
     !.i = @ + 1]

\* generateImagesFromVideos's for loop from item f.i on: up to the first
\* await or to the return
RECURSIVE generateImagesFromVideos_loop(_, _)
generateImagesFromVideos_loop(f, fsys) ==
  IF f.i > Len(f.items)
  THEN [f EXCEPT !.pc = "returned"]
  ELSE LET videoPath == f.items[f.i].videoPath
           r == checkPath(videoPath, fsys)
       IN  IF ~r.ok
           THEN generateImagesFromVideos_loop(generateFailure(f, r.error), fsys)
           ELSE [f EXCEPT
                   !.pc = "detect sharp",
                   !.mediaType = seedMediaType(toLowerCase(extname(videoPath)))]

\* the output path: the requested path with its extension made .png
pngPathOf(imagePath) ==
  IF toLowerCase(extname(imagePath)) # <<".", "p", "n", "g">>
  THEN join(dirname(imagePath),
            basename(imagePath, extname(imagePath)) \o <<".", "p", "n", "g">>)
  ELSE imagePath

\* generateImagesFromVideos after detectMediaType returned: the video test,
\* the output path, the output directory made and checked, and the frame
\* extraction started; the frame and the filesystem it leaves
generateImagesFromVideos_classified(f, mediaType, fsys) ==
  IF ~mediaType.isVideo
  THEN [frame |-> generateImagesFromVideos_loop(
                    generateFailure(f, <<"File is not a video: ">>
                        \o (IF mediaType.message = Null
                            THEN <<"Invalid file type">>
                            ELSE mediaType.message[1])),
                    fsys),
        fs |-> fsys]
  ELSE LET outputPath == pngPathOf(f.items[f.i].imagePath)
           imageDir == dirname(outputPath)
           made == IF ~existsSync(imageDir, fsys) THEN mkdirSync(imageDir, fsys)
                   ELSE [ok |-> TRUE, error |-> <<>>, fs |-> fsys]
           r == checkPath(imageDir, made.fs)
       IN  IF ~made.ok
           THEN [frame |-> generateImagesFromVideos_loop(
                             generateFailure(f, made.error), made.fs),
                 fs |-> made.fs]
           ELSE IF ~r.ok
           THEN [frame |-> generateImagesFromVideos_loop(
                             generateFailure(f, r.error), made.fs),
                 fs |-> made.fs]
           ELSE [frame |-> [f EXCEPT !.pc = "thumbnail ffmpeg",
                                     !.mediaType = mediaType,
                                     !.outputPath = outputPath],
                 fs |-> made.fs]

\* the success record of generateImagesFromVideos
generateSuccess(f, thumbnailResult) ==
  [f EXCEPT
     !.results = Append(@, [videoPath |-> f.items[f.i].videoPath,
                            imagePath |-> f.outputPath,
                            format |-> "png",
                            success |-> TRUE,
                            thumbnail |-> thumbnailResult]),
     !.i = @ + 1]

\* generateSmartThumbnail after ffmpeg's 'end': sharp(imagePath).metadata()
\* settled; what the promise resolves with, or the error it rejects with
thumbnailResultOf(imagePath, fsys) ==
  LET image == sharpMetadata(imagePath, fsys)
  IN  IF image.ok /\ existsSync(imagePath, fsys)
      THEN [ok |-> TRUE, error |-> <<>>,
            result |-> [width |-> Some(image.metadata.width),
                        height |-> Some(image.metadata.height),
                        note |-> Null]]
      ELSE IF existsSync(imagePath, fsys)
      THEN [ok |-> TRUE, error |-> <<>>,
            result |-> [width |-> Null, height |-> Null,
                        note |-> Some(<<"Image created but metadata could not be read">>)]]
      ELSE [ok |-> FALSE, error |-> <<"Failed to generate image">>,
            result |-> [width |-> Null, height |-> Null, note |-> Null]]

\* ffmpeg can take a frame from the file: it holds a video stream, or a
\* still image
ffmpegReads(videoPath, fsys) ==
  /\ existsSync(videoPath, fsys)
  /\ LET content == fsys[resolve(videoPath)].content
     IN  \/ content.sharp.ok
         \/ content.ffprobe.ok /\ \E k \in 1..Len(content.ffprobe.metadata.streams) :
              content.ffprobe.metadata.streams[k].codec_type = "video"

\* ffmpeg can write the file: its directory exists and the path is no directory
ffmpegWrites(imagePath, fsys) ==
  /\ existsSync(dirname(resolve(imagePath)), fsys)
  /\ fsys[dirname(resolve(imagePath))].kind = "dir"
  /\ ~(existsSync(imagePath, fsys) /\ fsys[resolve(imagePath)].kind = "dir")

-----------------------------------------------------------------------------
(* The requests of the model.                                              *)

RECURSIVE ListsUpTo(_, _)
ListsUpTo(S, n) ==
  IF n = 0 THEN {<<>>}
  ELSE LET shorter == ListsUpTo(S, n - 1)
       IN  shorter \cup {Append(l, x) : l \in shorter, x \in S}

\* a video, an image named .mp4, a video outside the root, a garbage .png
MediaPathInputs ==
  { Under(P_ra, N_v_mp4), Under(P_ra, N_i_mp4), Under(P_x, N_v_mp4),
    Under(P_ra, N_g_png) }

\* video to a new directory of the sibling "/r/ab" (as .jpg); an image named
\* .mp4; video to a new directory outside the root; an image named .png
ItemInputs ==
  { [videoPath |-> Under(P_ra, N_v_mp4),
     imagePath |-> Under(Under(P_rab, <<"n">>), N_t_jpg)],
    [videoPath |-> Under(P_ra, N_i_mp4), imagePath |-> Under(P_ra, N_t_png)],
    [videoPath |-> Under(P_ra, N_v_mp4),
     imagePath |-> Under(Under(P_x, <<"n">>), N_t_png)],
    [videoPath |-> Under(P_ra, N_i_png), imagePath |-> Under(P_ra, N_t_png)] }

MainRootConfigs == { <<>>, <<P_ra_slash, P_m>> }

NewFrame(tool, mediaPaths, items) ==
  [tool |-> tool, mediaPaths |-> mediaPaths, items |-> items, i |-> 1,
   pc |-> "start", results |-> <<>>, mediaType |-> seedMediaType(<<>>),
   sharpErr |-> <<>>, outputPath |-> <<>>]

Init ==
  /\ permittedDirectories \in MainRootConfigs
  /\ fs = FS0
  /\ calls = [c \in Requests |-> Idle]
  /\ resource = Null
  /\ submitted = 0
  /\ guard = GuardIdle
  /\ cls = Null
  /\ vinfo = Null

\* the slot a new request takes: the lowest idle one
IsFreeSlot(c) ==
  /\ calls[c].pc = "idle"
  /\ \A d \in Requests : d < c => calls[d].pc # "idle"

\* the path the frame's current item is classified by
currentPath(f) ==
  IF f.tool = "getMediaInfo" THEN f.mediaPaths[f.i] ELSE f.items[f.i].videoPath

\* the handler's catch block, then its loop
failItem(f, message, fsys) ==
  IF f.tool = "getMediaInfo"
  THEN getMediaInfo_loop(mediaInfoFailure(f, message), fsys)
  ELSE generateImagesFromVideos_loop(generateFailure(f, message), fsys)

\* the handler resumed with detectMediaType's return value
classified(f, mediaType, fsys) ==
  IF f.tool = "getMediaInfo"
  THEN [frame |-> getMediaInfo_classified(f, mediaType, fsys), fs |-> fsys]
  ELSE generateImagesFromVideos_classified(f, mediaType, fsys)

\* the roots as isSafePath compares them, not as they were given
allowedDirectoriesText_normalized ==
  [k \in 1..Len(permittedDirectories) |->
     normalize(resolve(permittedDirectories[k]))]

\* JSON.stringify(permittedDirectories, null, 2), as the list it denotes
allowedDirectoriesText == permittedDirectories

-----------------------------------------------------------------------------
(* The steps.                                                              *)

\* a getMediaInfo request arrives: the handler runs to its first await
CallGetMediaInfo ==
  \E c \in Requests, mediaPaths \in ListsUpTo(MediaPathInputs, MaxItems - submitted) :
    /\ IsFreeSlot(c)
    /\ calls' = [calls EXCEPT ![c] =
         getMediaInfo_loop(NewFrame("getMediaInfo", mediaPaths, <<>>), fs)]
    /\ submitted' = submitted + Len(mediaPaths)
    /\ UNCHANGED <<permittedDirectories, fs, resource, guard, cls, vinfo>>

\* a generateImagesFromVideos request arrives
CallGenerateImagesFromVideos ==
  \E c \in Requests, items \in ListsUpTo(ItemInputs, MaxItems - submitted) :
    /\ IsFreeSlot(c)
    /\ calls' = [calls EXCEPT ![c] =
         generateImagesFromVideos_loop(
           NewFrame("generateImagesFromVideos", <<>>, items), fs)]
    /\ submitted' = submitted + Len(items)
    /\ UNCHANGED <<permittedDirectories, fs, resource, guard, cls, vinfo>>

\* the getAllowedDirectories resource is read
ReadAllowedDirectories ==
  /\ resource' = Some(allowedDirectoriesText)
  /\ UNCHANGED <<permittedDirectories, fs, calls, submitted, guard, cls, vinfo>>

\* detectMediaType: the image decode resolves and the handler goes on
HandlerSharpResolved ==
  \E c \in Requests :
    /\ calls[c].pc = "detect sharp"
    /\ LET f == calls[c]
           image == sharpMetadata(currentPath(f), fs)
       IN  /\ image.ok
           /\ LET next == classified(f, onSharpResolved(f.mediaType, image.metadata), fs)
              IN  /\ calls' = [calls EXCEPT ![c] = next.frame]
                  /\ fs' = next.fs
    /\ UNCHANGED <<permittedDirectories, resource, submitted, guard, cls, vinfo>>

\* detectMediaType: the image decode rejects and the probe is started
HandlerSharpRejected ==
  \E c \in Requests :
    /\ calls[c].pc = "detect sharp"
    /\ LET f == calls[c]
           image == sharpMetadata(currentPath(f), fs)
       IN  /\ ~image.ok
           /\ calls' = [calls EXCEPT ![c] =
                [f EXCEPT !.pc = "detect ffprobe", !.sharpErr = image.message]]
    /\ UNCHANGED <<permittedDirectories, fs, resource, submitted, guard, cls, vinfo>>

\* detectMediaType: the probe calls back and the handler goes on
HandlerProbeCallback ==
  \E c \in Requests :
    /\ calls[c].pc = "detect ffprobe"
    /\ LET f == calls[c]
           videoCheck == videoCheckOf(ffprobe(currentPath(f), fs))
           next == classified(f, onProbeDone(f.mediaType, videoCheck, f.sharpErr), fs)
       IN  /\ calls' = [calls EXCEPT ![c] = next.frame]
           /\ fs' = next.fs
    /\ UNCHANGED <<permittedDirectories, resource, submitted, guard, cls, vinfo>>

\* getImageInfo: sharp settles; the record is pushed, or the error caught
ImageInfoSettled ==
  \E c \in Requests :
    /\ calls[c].pc = "info sharp"
    /\ LET f == calls[c]
           image == sharpMetadata(currentPath(f), fs)
       IN  calls' = [calls EXCEPT ![c] =
             IF image.ok
             THEN getMediaInfo_loop(
                    [f EXCEPT !.results = Append(@, imageInfo(image.metadata, currentPath(f))),
                              !.i = @ + 1], fs)
             ELSE failItem(f, image.message, fs)]
    /\ UNCHANGED <<permittedDirectories, fs, resource, submitted, guard, cls, vinfo>>

\* getVideoInfo: ffprobe calls back; the record is pushed, or the error caught
VideoInfoCallback ==
  \E c \in Requests :
    /\ calls[c].pc = "info ffprobe"
    /\ LET f == calls[c]
           probe == ffprobe(currentPath(f), fs)
       IN  calls' = [calls EXCEPT ![c] =
             IF probe.ok
             THEN getMediaInfo_loop(
                    [f EXCEPT !.results = Append(@, videoInfo(probe.metadata, currentPath(f))),
                              !.i = @ + 1], fs)
             ELSE failItem(f, probe.message, fs)]
    /\ UNCHANGED <<permittedDirectories, fs, resource, submitted, guard, cls, vinfo>>

\* generateSmartThumbnail: ffmpeg ends, having written the image (whole, or
\* unreadable); sharp is started on it
ThumbnailEnd ==
  \E c \in Requests, written \in {PngContent, GarbageContent} :
    /\ calls[c].pc = "thumbnail ffmpeg"
    /\ LET f == calls[c]
       IN  /\ ffmpegReads(currentPath(f), fs)
           /\ ffmpegWrites(f.outputPath, fs)
           /\ fs' = (resolve(f.outputPath) :> File(written)) @@ fs
           /\ calls' = [calls EXCEPT ![c] = [f EXCEPT !.pc = "thumbnail sharp"]]
    /\ UNCHANGED <<permittedDirectories, resource, submitted, guard, cls, vinfo>>

\* generateSmartThumbnail: ffmpeg reports an error; the item fails
ThumbnailError ==
  \E c \in Requests :
    /\ calls[c].pc = "thumbnail ffmpeg"
    /\ calls' = [calls EXCEPT ![c] =
         failItem(calls[c], <<"ffmpeg exited with code 1">>, fs)]
    /\ UNCHANGED <<permittedDirectories, fs, resource, submitted, guard, cls, vinfo>>

\* generateSmartThumbnail: sharp settles on the written image
ThumbnailDescribed ==
  \E c \in Requests :
    /\ calls[c].pc = "thumbnail sharp"
    /\ LET f == calls[c]
           t == thumbnailResultOf(f.outputPath, fs)
       IN  calls' = [calls EXCEPT ![c] =
             IF t.ok
             THEN generateImagesFromVideos_loop(generateSuccess(f, t.result), fs)
             ELSE failItem(f, t.error, fs)]
    /\ UNCHANGED <<permittedDirectories, fs, resource, submitted, guard, cls, vinfo>>

\* the response of a returned handler is sent
Reply ==
  \E c \in Requests :
    /\ calls[c].pc = "returned"
    /\ calls' = [calls EXCEPT ![c] = Idle]
    /\ UNCHANGED <<permittedDirectories, fs, resource, submitted, guard, cls, vinfo>>

Next ==
  \/ CallGetMediaInfo
  \/ CallGenerateImagesFromVideos
  \/ ReadAllowedDirectories
  \/ HandlerSharpResolved
  \/ HandlerSharpRejected
  \/ HandlerProbeCallback
  \/ ImageInfoSettled
  \/ VideoInfoCallback
  \/ ThumbnailEnd
  \/ ThumbnailError
  \/ ThumbnailDescribed
  \/ Reply

Spec == Init /\ [][Next]_vars

-----------------------------------------------------------------------------
(* Properties of the server.                                               *)

Busy(c) == calls[c].pc # "idle"
Generating(c) == Busy(c) /\ calls[c].tool = "generateImagesFromVideos"
Extracting(c) ==
  Generating(c) /\ calls[c].pc \in {"thumbnail ffmpeg", "thumbnail sharp"}

\* the files written since process start
WrittenFiles ==
  {p \in DOMAIN fs :
     fs[p].kind = "file" /\ (p \notin DOMAIN FS0 \/ fs[p] # FS0[p])}

\* C2: for an item whose video lies under a permitted root, frame extraction
\* is started only with an output path inside the tree of a permitted root,
\* and no thumbnail file is ever written outside every permitted root.
C2_ThumbnailsInsideRoots ==
  /\ \A c \in Requests :
       (Extracting(c) /\ InsideSomeRoot(currentPath(calls[c])))
         => InsideSomeRoot(calls[c].outputPath)
  /\ \A p \in WrittenFiles : InsideSomeRoot(p)

\* the file's content is a video: no image, and a container that lists a
\* stream of kind "video"
IsVideoContent(filePath) ==
  /\ existsSync(filePath, fs)
  /\ ~sharpMetadata(filePath, fs).ok
  /\ ffprobe(filePath, fs).ok
  /\ ListsVideoStream(ffprobe(filePath, fs).metadata)

NotAVideoPrefix == StringOfError(<<"File is not a video: ">>)

\* C6: in generateImagesFromVideos an item whose (existing, permitted) input
\* is not a video by content gets a failure record 'File is not a video' and
\* no frame extraction is started for it; the batch's other items still get
\* their records.
C6_NonVideoFails ==
  \A c \in Requests : Generating(c) =>
    LET f == calls[c] IN
    /\ Extracting(c) => IsVideoContent(f.items[f.i].videoPath)
    /\ \A j \in 1..Len(f.results) :
         (checkPath(f.items[j].videoPath, fs).ok
            /\ ~IsVideoContent(f.items[j].videoPath))
           => /\ ~f.results[j].success
              /\ startsWith(f.results[j].error, NotAVideoPrefix)
    /\ f.pc = "returned" => Len(f.results) = Len(f.items)

\* the number of items the invocation was given
ItemCount(f) == IF f.tool = "getMediaInfo" THEN Len(f.mediaPaths) ELSE Len(f.items)

\* record j of the invocation is the record of its input j
Describes(f, j) ==
  LET r == f.results[j] IN
  /\ r.success \in BOOLEAN
  /\ IF f.tool = "getMediaInfo"
     THEN r.path = f.mediaPaths[j]
     ELSE /\ r.videoPath = f.items[j].videoPath
          /\ r.imagePath = IF r.success THEN pngPathOf(f.items[j].imagePath)
                           ELSE f.items[j].imagePath
  /\ ~r.success => (startsWith(r.error, <<"Error: ">>) /\ Len(r.error) > 1)

\* C7: an invocation over N items answers with N records, the i-th the
\* record of the i-th input, each a success or a failure with its cause: a
\* record is appended for every item the loop has passed, whatever failed,
\* and the handler ends by returning the records.
C7_OneRecordPerItem ==
  \A c \in Requests : Busy(c) =>
    LET f == calls[c] IN
    /\ Len(f.results) = f.i - 1
    /\ IF f.pc = "returned" THEN Len(f.results) = ItemCount(f)
       ELSE f.i <= ItemCount(f)
    /\ \A j \in 1..Len(f.results) : Describes(f, j)

\* a handler has returned two records: a failure, then a success
C7_Witness ==
  \E c \in Requests :
    /\ calls[c].pc = "returned"
    /\ Len(calls[c].results) = 2
    /\ ~calls[c].results[1].success
    /\ calls[c].results[2].success

\* C10: no step changes the permitted roots, and every read of
\* getAllowedDirectories returns them as configured, in order, unmodified.
C10_RootsFixed ==
  [][ /\ permittedDirectories' = permittedDirectories
      /\ resource' # Null => resource'[1] = permittedDirectories ]_vars

\* the roots have been read after tool invocations made a directory, wrote a
\* thumbnail and answered
C10_Witness ==
  /\ resource = Some(<<P_ra_slash, P_m>>)
  /\ WrittenFiles # {}
  /\ \A c \in Requests : ~Busy(c)
  /\ submitted = MaxItems


-----------------------------------------------------------------------------
(* Properties of the scheduling and of the filesystem's frame.             *)

\* the handler of request c awaits an external call: the image decode or the
\* container probe of detectMediaType, getImageInfo's decode, getVideoInfo's
\* probe, ffmpeg's frame extraction or the decode of the written image
InFlight(c) ==
  calls[c].pc \in {"detect sharp", "detect ffprobe", "info sharp",
                   "info ffprobe", "thumbnail ffmpeg", "thumbnail sharp"}

\* the external calls in flight in the process
CallsInFlight == {c \in Requests : InFlight(c)}

\* C11: at most one external-library call is in flight at any time: an
\* invocation awaiting a call for item i has appended the records of the
\* items before i and of no other, and while one invocation awaits an
\* external call no other invocation's item loop starts or advances (the
\* other may only be answered, or be an invocation without items).
C11_OneCallInFlight ==
  [][ /\ Cardinality(CallsInFlight') <= 1
      /\ \A c \in Requests :
           InFlight(c)' => Len(calls'[c].results) = calls'[c].i - 1
      /\ \A c, d \in Requests :
           (c # d /\ InFlight(d) /\ calls'[c] # calls[c])
             => (calls'[c].pc = "idle" \/ ItemCount(calls'[c]) = 0) ]_vars

\* two invocations each await an external call: one the image decode of its
\* first item, the other a container probe
C11_TwoCallsInFlight ==
  /\ Cardinality(CallsInFlight) = 2
  /\ \E c, d \in Requests :
       calls[c].pc = "detect sharp" /\ calls[d].pc = "detect ffprobe"

\* the handler of request c ends this step with a failure record for the
\* item it was classifying, the cause being the output directory: the item's
\* video had passed checkPath, and the error is 'Path not allowed'
OutputDirRefused(c) ==
  /\ Generating(c)
  /\ calls[c].pc \in {"detect sharp", "detect ffprobe"}
  /\ Len(calls'[c].results) >= calls[c].i
  /\ ~calls'[c].results[calls[c].i].success
  /\ calls'[c].results[calls[c].i].error = StringOfError(ErrNotAllowed)

\* C12: a generateImagesFromVideos item that fails because its output
\* directory is under no permitted root leaves the filesystem as it was: the
\* item has made no directory and no file.
C12_RefusedItemLeavesFs ==
  [][ \A c \in Requests : OutputDirRefused(c) => fs' = fs ]_vars

=============================================================================
